---- MODULE Spec2Model ----
(***************************************************************************)
(* A model of the backend of the Grafana OpenWeather data source           *)
(* (pkg/plugin/datasource.go, pkg/plugin/struct.go) together with the part *)
(* of the frontend that shapes the query JSON (src/types.ts,               *)
(* src/components/QueryEditor.tsx).                                        *)
(*                                                                         *)
(* Strings are TLA+ strings, so that prefix tests and formatting are       *)
(* computed as the code computes them.  JSON documents are functions from  *)
(* the keys that are present to their values; decoding into a Go struct    *)
(* reads the tagged keys and leaves the zero value for an absent key.      *)
(* Every handler is one action: its inputs (request, plugin settings, the  *)
(* behaviour of the remote API) are drawn from the small sets below and    *)
(* its whole effect is recorded in the variable last.                      *)
(***************************************************************************)
EXTENDS Integers, Sequences, FiniteSets, TLC

VARIABLES d, registered, last, calls, requestsTotal, history

vars == <<d, registered, last, calls, requestsTotal, history>>

\* the state of the calls that run concurrently
conc == <<calls, requestsTotal>>

(***************************************************************************)
(* Bounds of the model.                                                    *)
(***************************************************************************)
\* the longest forecast list a reply of the remote API carries
MaxEntries == 2

\* the number of calls the host runs concurrently on one instance
MaxCalls == 2

\* the largest number of queries one request carries
MaxQueries == 2

\* the longest sequence of successive queries that is followed
MaxHistory == 2

(***************************************************************************)
(* Go values.                                                              *)
(***************************************************************************)
\* a nil error / a nil pointer; a non-nil one is the one-element sequence
Nil == <<>>

Some(v) == <<v>>

\* a JSON object without keys
EmptyObj == [k \in {} |-> ""]

\* the value under key k, or the Go zero value dflt when the key is absent
Get(obj, k, dflt) == IF k \in DOMAIN obj THEN obj[k] ELSE dflt

HasPrefix(s, p) == Len(s) >= Len(p) /\ SubSeq(s, 1, Len(p)) = p

\* the first position at which old occurs in s, 0 when it does not occur
Index(s, old) ==
    LET hits == { i \in 1..(Len(s) - Len(old) + 1) : SubSeq(s, i, i + Len(old) - 1) = old }
    IN IF hits = {} THEN 0 ELSE CHOOSE i \in hits : \A j \in hits : i <= j

\* strings.Replace(s, old, new, 1) for a non-empty old: the first occurrence
ReplaceFirst(s, old, new) ==
    IF Index(s, old) = 0 THEN s
    ELSE SubSeq(s, 1, Index(s, old) - 1) \o new
         \o SubSeq(s, Index(s, old) + Len(old), Len(s))

\* net/http status codes the code names
StatusOK == 200

\* backend.Status values of the plugin SDK used by ErrDataResponse
StatusBadRequest == 400

StatusInternal == 500

\* the zero value of backend.Status, carried by a response built without error
StatusUnset == 0

(***************************************************************************)
(* Plugin settings (backend.DataSourceInstanceSettings) and their loading. *)
(* pkg/models is not among the sources; LoadPluginSettings is modelled as  *)
(* the SDK template it is called as: decode JSONData, then read the apiKey *)
(* of the decrypted secure data.                                           *)
(***************************************************************************)
\* a configured API key
TheKey == "k3y"

SettingsJSON ==
    { [wellFormed |-> FALSE, obj |-> EmptyObj],
      [wellFormed |-> TRUE, obj |-> EmptyObj],
      [wellFormed |-> TRUE, obj |-> [path |-> ""]],
      [wellFormed |-> TRUE, obj |-> [path |-> "api.example.org/forecast"]],
      [wellFormed |-> TRUE, obj |-> [path |-> "http://localhost:8080/forecast"]] }

SecureData == { EmptyObj, [apiKey |-> ""], [apiKey |-> TheKey] }

\* the settings the host hands to the factory; a custom path is only paired
\* with a configured key
AllSettings ==
    { st \in [JSONData : SettingsJSON, DecryptedSecureJSONData : SecureData] :
        "path" \in DOMAIN st.JSONData.obj
            => st.DecryptedSecureJSONData = [apiKey |-> TheKey] }

\* the settings the plugin context of a call carries; the handlers read the
\* key from them and the base URL from the instance
CallSettings ==
    { st \in AllSettings :
        /\ "path" \notin DOMAIN st.JSONData.obj
        /\ ~st.JSONData.wellFormed => st.DecryptedSecureJSONData = [apiKey |-> TheKey] }

LoadPluginSettings(source) ==
    IF ~source.JSONData.wellFormed
    THEN [err |-> Some("could not unmarshal PluginSettings json"),
          Path |-> "", Secrets |-> [ApiKey |-> ""]]
    ELSE [err |-> Nil,
          Path |-> Get(source.JSONData.obj, "path", ""),
          Secrets |-> [ApiKey |-> Get(source.DecryptedSecureJSONData, "apiKey", "")]]

(***************************************************************************)
(* NewDatasource: the base URL of the instance.                            *)
(***************************************************************************)
DefaultForecastURL == "https://api.openweathermap.org/data/2.5/forecast"

\* NewBaseURL that keeps a configured path as it is
NewBaseURL_NoScheme(path) == IF path = "" THEN DefaultForecastURL ELSE path

NewBaseURL(path) ==
    IF path = "" THEN DefaultForecastURL
    ELSE IF ~HasPrefix(path, "http") THEN "https://" \o path
    ELSE path

\* no instance has been built yet
NoInstance == Nil

(***************************************************************************)
(* The frontend: the (main parameter, sub parameter) pairs of the query    *)
(* editor and the JSON applyTemplateVariables sends to the backend.        *)
(***************************************************************************)
unitsOptions == {"standard", "metric", "imperial"}

mainParameterOptions == {"main", "wind", "clouds", "rain"}

subParameterOptions ==
    [m \in mainParameterOptions |->
        CASE m = "main" -> {"temp", "feels_like", "temp_min", "temp_max",
                            "pressure", "sea_level", "grnd_level", "humidity"}
          [] m = "wind" -> {"speed", "deg", "gust"}
          [] m = "clouds" -> {"all"}
          [] m = "rain" -> {"3h"}]

\* the paths the query editor can produce
EditorPairs ==
    UNION { { <<m, sub>> : sub \in subParameterOptions[m] } : m \in mainParameterOptions }

\* a || b of TypeScript on strings: the empty string is falsy
OrElse(a, b) == IF a = "" THEN b ELSE a

\* applyTemplateVariables without the two members the backend reads
applyTemplateVariables_NoMapping(q) ==
    [city |-> q.city,
     mainParameter |-> OrElse(q.mainParameter, "main"),
     subParameter |-> OrElse(q.subParameter, "temp"),
     units |-> OrElse(q.units, "metric"),
     queryText |-> q.city]

\* the query object sent to the backend for the editor's query q
applyTemplateVariables(q) ==
    [city |-> q.city,
     mainParameter |-> OrElse(q.mainParameter, "main"),
     subParameter |-> OrElse(q.subParameter, "temp"),
     units |-> OrElse(q.units, "metric"),
     queryText |-> q.city,
     metric |-> OrElse(q.mainParameter, "main"),
     format |-> OrElse(q.subParameter, "temp")]

\* a city http.NewRequest cannot put into a URL: it holds a control character
BadCity == "Bad\nCity"

Cities == {"", "London", BadCity}

\* the queries the editor holds: every path in metric units, one path in
\* every unit system, and a query whose selectors were never set
EditorQueries ==
    { [city |-> c, mainParameter |-> p[1], subParameter |-> p[2], units |-> "metric"] :
        c \in Cities, p \in EditorPairs }
    \cup
    { [city |-> c, mainParameter |-> "main", subParameter |-> "temp", units |-> u] :
        c \in Cities, u \in unitsOptions }
    \cup
    { [city |-> "London", mainParameter |-> "", subParameter |-> "", units |-> ""] }

\* a city whose name holds the text of the configured key
KeyCity == TheKey \o "port"

\* query objects that do not come from the editor: selectors the backend does
\* not know, a query that names no selector at all, and a query for KeyCity
RawQueryObjects ==
    { [city |-> "London", metric |-> "wind", format |-> "temp", units |-> "metric"],
      [city |-> KeyCity, metric |-> "main", format |-> "temp", units |-> "metric"],
      [city |-> "London", metric |-> "clouds", format |-> "speed", units |-> "metric"],
      [city |-> "London", metric |-> "rain", format |-> "", units |-> "metric"],
      [city |-> "London", metric |-> "snow", format |-> "3h", units |-> "metric"],
      [city |-> "London", metric |-> "main", format |-> "dew", units |-> "imperial"],
      [city |-> "London"] }

\* query.JSON of a backend.DataQuery: text that is no JSON object of strings,
\* or an object
QueryJSONs ==
    { [wellFormed |-> FALSE, obj |-> EmptyObj] }
    \cup { [wellFormed |-> TRUE, obj |-> applyTemplateVariables(q)] : q \in EditorQueries }
    \cup { [wellFormed |-> TRUE, obj |-> o] : o \in RawQueryObjects }

\* json.Unmarshal(query.JSON, &qm) into the queryModel struct
UnmarshalQuery(json) ==
    IF ~json.wellFormed
    THEN [err |-> Some("unexpected end of JSON input"),
          qm |-> [City |-> "", Format |-> "", Metric |-> "", Units |-> ""]]
    ELSE [err |-> Nil,
          qm |-> [City |-> Get(json.obj, "city", ""),
                  Format |-> Get(json.obj, "format", ""),
                  Metric |-> Get(json.obj, "metric", ""),
                  Units |-> Get(json.obj, "units", "")]]

(***************************************************************************)
(* The remote API: forecast entries as JSON objects, and the replies.      *)
(***************************************************************************)
\* forecast entries the replies are built from.  Within one entry every
\* numeric field has a value of its own.  The second one lacks the optional
\* members (rain, weather, sea_level, grnd_level, gust).
SampleEntries ==
    { [dt |-> 10800,
       main |-> [temp |-> 11, feels_like |-> 12, temp_min |-> 13, temp_max |-> 14,
                 pressure |-> 15, sea_level |-> 16, grnd_level |-> 17, humidity |-> 18],
       weather |-> << [id |-> 500, description |-> "light rain"] >>,
       clouds |-> [all |-> 19],
       wind |-> [speed |-> 21, deg |-> 22, gust |-> 23],
       rain |-> ("3h" :> 24)],
      [dt |-> 21600,
       main |-> [temp |-> 31, feels_like |-> 32, temp_min |-> 33, temp_max |-> 34,
                 pressure |-> 35, humidity |-> 38],
       weather |-> << >>,
       clouds |-> [all |-> 39],
       wind |-> [speed |-> 41, deg |-> 42]],
      [dt |-> 0,
       main |-> [temp |-> 51, feels_like |-> 52, temp_min |-> 53, temp_max |-> 54,
                 pressure |-> 55, sea_level |-> 56, grnd_level |-> 57, humidity |-> 58],
       weather |-> << [id |-> 800, description |-> "clear sky"],
                      [id |-> 701, description |-> "mist"] >>,
       clouds |-> [all |-> 59],
       wind |-> [speed |-> 61, deg |-> 62, gust |-> 63],
       rain |-> ("3h" :> 64)] }

ForecastLists == UNION { [1..n -> SampleEntries] : n \in 0..MaxEntries }

\* reply bodies: text that is no JSON, an error document, and forecast
\* documents.  text stands for the bytes of the body.
Bodies ==
    { [text |-> "<html>", wellFormed |-> FALSE, obj |-> EmptyObj],
      [text |-> "{cod:404}", wellFormed |-> TRUE,
       obj |-> [cod |-> "404", message |-> 0]] }
    \cup
    { [text |-> "{forecast}", wellFormed |-> TRUE,
       obj |-> [cod |-> "200", message |-> 0, cnt |-> Len(l), list |-> l,
                city |-> [id |-> 1, name |-> "London"]]] : l \in ForecastLists }

\* the status codes the remote API answers with
StatusCodes == {200, 401, 404, 429, 500}

\* what the remote API does with a request: the transport fails (client.Do),
\* reading the body fails (io.ReadAll), or a reply arrives
Replies ==
    { [fail |-> f[1], StatusCode |-> f[2],
       body |-> [text |-> "", wellFormed |-> FALSE, obj |-> EmptyObj]] :
        f \in { <<"do", 200>>, <<"read", 200>>, <<"read", 500>> } }
    \cup
    { [fail |-> "none", StatusCode |-> 200, body |-> b] : b \in Bodies }
    \cup
    { [fail |-> "none", StatusCode |-> c,
       body |-> [text |-> "{cod:404}", wellFormed |-> TRUE,
                 obj |-> [cod |-> "404", message |-> 0]]] :
        c \in StatusCodes \ {200} }

(***************************************************************************)
(* Decoding a reply body into the structs of struct.go.                    *)
(***************************************************************************)
UnmarshalMain(j) ==
    [Temp |-> Get(j, "temp", 0), FeelsLike |-> Get(j, "feels_like", 0),
     TempMin |-> Get(j, "temp_min", 0), TempMax |-> Get(j, "temp_max", 0),
     Pressure |-> Get(j, "pressure", 0), SeaLevel |-> Get(j, "sea_level", 0),
     GrndLevel |-> Get(j, "grnd_level", 0), Humidity |-> Get(j, "humidity", 0)]

UnmarshalWeather(j) ==
    [ID |-> Get(j, "id", 0), Description |-> Get(j, "description", "")]

UnmarshalItem(j) ==
    [Dt |-> Get(j, "dt", 0),
     Main |-> UnmarshalMain(Get(j, "main", EmptyObj)),
     Weather |-> [i \in 1..Len(Get(j, "weather", <<>>)) |-> UnmarshalWeather(j.weather[i])],
     Clouds |-> [All |-> Get(Get(j, "clouds", EmptyObj), "all", 0)],
     Wind |-> [Speed |-> Get(Get(j, "wind", EmptyObj), "speed", 0),
               Deg |-> Get(Get(j, "wind", EmptyObj), "deg", 0),
               Gust |-> Get(Get(j, "wind", EmptyObj), "gust", 0)],
     Rain |-> IF "rain" \in DOMAIN j
              THEN Some([ThreeH |-> Get(j.rain, "3h", 0)])
              ELSE Nil]

\* json.Unmarshal(body, &weatherResponse)
UnmarshalWeatherResponse(body) ==
    IF ~body.wellFormed
    THEN [err |-> Some("invalid character '<' looking for beginning of value"),
          v |-> [Cod |-> "", List |-> <<>>, City |-> [Name |-> ""]]]
    ELSE [err |-> Nil,
          v |-> [Cod |-> Get(body.obj, "cod", ""),
                 List |-> [i \in 1..Len(Get(body.obj, "list", <<>>)) |->
                              UnmarshalItem(body.obj.list[i])],
                 City |-> [Name |-> Get(Get(body.obj, "city", EmptyObj), "name", "")]]]

(***************************************************************************)
(* createDataFrames.                                                       *)
(***************************************************************************)
\* time.UnixMilli(sec): dt taken for milliseconds
UnixTime_Millis(sec) == [sec |-> sec \div 1000, nsec |-> (sec % 1000) * 1000000]

\* time.Unix(sec, 0): the instant sec seconds after the Unix epoch
UnixTime(sec) == [sec |-> sec, nsec |-> 0]

\* SelectValue without the inner switches on qm.Format
SelectValue_IgnoresFormat(item, qm) ==
    CASE qm.Metric = "wind" -> item.Wind.Speed
      [] qm.Metric = "clouds" -> item.Clouds.All
      [] qm.Metric = "rain" -> IF item.Rain # Nil THEN item.Rain[1].ThreeH ELSE 0
      [] OTHER -> item.Main.Temp

\* the switch of the earlier revision (unnamed/part_000): it has no default
\* branches, so an unknown selector leaves the value at zero
SelectValue_NoDefaults(item, qm) ==
    CASE qm.Metric = "main" ->
            CASE qm.Format = "temp" -> item.Main.Temp
              [] qm.Format = "feels_like" -> item.Main.FeelsLike
              [] qm.Format = "temp_min" -> item.Main.TempMin
              [] qm.Format = "temp_max" -> item.Main.TempMax
              [] qm.Format = "pressure" -> item.Main.Pressure
              [] qm.Format = "humidity" -> item.Main.Humidity
              [] OTHER -> 0
      [] qm.Metric = "wind" ->
            CASE qm.Format = "speed" -> item.Wind.Speed
              [] qm.Format = "deg" -> item.Wind.Deg
              [] qm.Format = "gust" -> item.Wind.Gust
              [] OTHER -> 0
      [] qm.Metric = "clouds" -> item.Clouds.All
      [] qm.Metric = "rain" -> IF item.Rain # Nil THEN item.Rain[1].ThreeH ELSE 0
      [] OTHER -> 0

\* the switch on qm.Metric and qm.Format for one forecast item
SelectValue(item, qm) ==
    CASE qm.Metric = "main" ->
            CASE qm.Format = "temp" -> item.Main.Temp
              [] qm.Format = "feels_like" -> item.Main.FeelsLike
              [] qm.Format = "temp_min" -> item.Main.TempMin
              [] qm.Format = "temp_max" -> item.Main.TempMax
              [] qm.Format = "pressure" -> item.Main.Pressure
              [] qm.Format = "sea_level" -> item.Main.SeaLevel
              [] qm.Format = "grnd_level" -> item.Main.GrndLevel
              [] qm.Format = "humidity" -> item.Main.Humidity
              [] OTHER -> item.Main.Temp
      [] qm.Metric = "wind" ->
            CASE qm.Format = "speed" -> item.Wind.Speed
              [] qm.Format = "deg" -> item.Wind.Deg
              [] qm.Format = "gust" -> item.Wind.Gust
              [] OTHER -> item.Wind.Speed
      [] qm.Metric = "clouds" -> item.Clouds.All
      [] qm.Metric = "rain" -> IF item.Rain # Nil THEN item.Rain[1].ThreeH ELSE 0
      [] OTHER -> item.Main.Temp

\* the switch ends in one of its default branches
DefaultBranch(qm) ==
    \/ qm.Metric \notin {"main", "wind", "clouds", "rain"}
    \/ /\ qm.Metric = "main"
       /\ qm.Format \notin {"temp", "feels_like", "temp_min", "temp_max", "pressure",
                            "sea_level", "grnd_level", "humidity"}
    \/ /\ qm.Metric = "wind"
       /\ qm.Format \notin {"speed", "deg", "gust"}

SelectDescription(item) ==
    IF Len(item.Weather) > 0 THEN item.Weather[1].Description ELSE ""

\* data.NewField(name, nil, values)
NewField(name, values) == [Name |-> name, Values |-> values]

\* the value column under a fixed name
ValueFieldName_Fixed(qm) == "value"

\* the name the value column of the frame gets
ValueFieldName(qm) == qm.Format

createDataFrames(weatherResponses, qm) ==
    IF Len(weatherResponses) = 0 \/ Len(weatherResponses[1].List) = 0
    THEN [frame |-> Nil, err |-> Some("no weather data available")]
    ELSE LET list == weatherResponses[1].List
             times == [i \in 1..Len(list) |-> UnixTime(list[i].Dt)]
             values == [i \in 1..Len(list) |-> SelectValue(list[i], qm)]
             descriptions == [i \in 1..Len(list) |-> SelectDescription(list[i])]
         IN [frame |-> Some([Name |-> weatherResponses[1].City.Name,
                             Fields |-> << NewField("time", times),
                                           NewField(ValueFieldName(qm), values),
                                           NewField("description", descriptions) >>,
                             Meta |-> [Custom |->
                                        [city |-> weatherResponses[1].City.Name,
                                         parameter |-> qm.Metric \o "." \o qm.Format]]]),
             err |-> Nil]

(***************************************************************************)
(* GetHistoricalWeather.                                                   *)
(***************************************************************************)
\* ASCII control characters net/url refuses anywhere in a URL
ControlChars == {"\n", "\t", "\r"}

\* http.NewRequest("GET", url, nil) succeeds: net/url parses the URL
URLParses(url) == \A i \in 1..Len(url) : SubSeq(url, i, i) \notin ControlChars

\* KeyMissing with the test left out
KeyMissing_Unchecked(apiKey) == FALSE

\* the test both handlers make of the configured key before any request
KeyMissing(apiKey) == apiKey = ""

\* the unit system the request asks the API for
RequestUnits(qm) == "metric"

\* fmt.Sprintf("%s?q=%s&appid=%s&units=metric", baseURL, city, apiKey)
ForecastURL(baseURL, city, apiKey, units) ==
    baseURL \o "?q=" \o city \o "&appid=" \o apiKey \o "&units=" \o units

HTTPGet(url) == [Method |-> "GET", URL |-> url, Accept |-> "application/json"]

\* the error for a non-200 status that has no message of its own
GenericQueryError(status, errorMsg) ==
    "API request failed with status code: " \o ToString(status) \o " - " \o errorMsg

\* QueryStatusError whose 429 branch was copied from the 401 branch
QueryStatusError_Copied(status, city, errorMsg) ==
    IF status = 401 \/ status = 429
    THEN "authentication failed: invalid API key (401). Please verify your API key is correct and active"
    ELSE IF status = 404
    THEN "city not found: " \o city \o " (404)"
    ELSE GenericQueryError(status, errorMsg)

\* the error for a reply whose status is not 200
QueryStatusError(status, city, errorMsg) ==
    IF status = 401
    THEN "authentication failed: invalid API key (401). Please verify your API key is correct and active"
    ELSE IF status = 404
    THEN "city not found: " \o city \o " (404)"
    ELSE IF status = 429
    THEN "API rate limit exceeded (429). Please check your subscription plan"
    ELSE GenericQueryError(status, errorMsg)

\* QuerySends with one retry after a failure
QuerySends_Retry(req, api) ==
    IF api.fail # "none" \/ api.StatusCode # 200 \/ ~api.body.wellFormed
    THEN << req, req >>
    ELSE << req >>

\* the requests the function sends, given what the remote API does with one
QuerySends(req, api) == << req >>

\* the part of GetHistoricalWeather after the reply has been read
\* HandleReply that decodes the body before it looks at the status code
HandleReply_DecodeFirst(city, api) ==
    LET u == UnmarshalWeatherResponse(api.body)
    IN IF u.err # Nil
       THEN [data |-> <<>>,
             err |-> Some("error unmarshalling response: " \o u.err[1])]
       ELSE IF u.v.Cod # "200"
       THEN [data |-> <<>>, err |-> Some("API returned error code: " \o u.v.Cod)]
       ELSE IF api.StatusCode # StatusOK
       THEN [data |-> <<>>,
             err |-> Some(QueryStatusError(api.StatusCode, city, api.body.text))]
       ELSE IF Len(u.v.List) = 0
       THEN [data |-> <<>>, err |-> Some("API returned no weather data")]
       ELSE [data |-> << u.v >>, err |-> Nil]

HandleReply(city, api) ==
    IF api.StatusCode # StatusOK
    THEN [data |-> <<>>,
          err |-> Some(QueryStatusError(api.StatusCode, city, api.body.text))]
    ELSE LET u == UnmarshalWeatherResponse(api.body)
         IN IF u.err # Nil
            THEN [data |-> <<>>,
                  err |-> Some("error unmarshalling response: " \o u.err[1])]
            ELSE IF u.v.Cod # "200"
            THEN [data |-> <<>>, err |-> Some("API returned error code: " \o u.v.Cod)]
            ELSE IF Len(u.v.List) = 0
            THEN [data |-> <<>>, err |-> Some("API returned no weather data")]
            ELSE [data |-> << u.v >>, err |-> Nil]

\* the URL as the handlers log it
LoggedURL(url, apiKey) == ReplaceFirst(url, apiKey, "API_KEY_HIDDEN")

\* inst is the Datasource, api what the remote API does with a request.
\* The result carries the requests that were sent and the URLs that were
\* logged.
GetHistoricalWeather(inst, city, apiKey, qm, api) ==
    IF KeyMissing(apiKey)
    THEN [data |-> <<>>, sent |-> <<>>, log |-> <<>>,
          err |-> Some("missing API key: please add a valid OpenWeather API key in the datasource configuration")]
    ELSE LET baseURL == IF ~HasPrefix(inst.baseURL, "http")
                        THEN "https://api.openweathermap.org/data/2.5"
                        ELSE inst.baseURL
             url == ForecastURL(baseURL, city, apiKey, RequestUnits(qm))
         IN IF ~URLParses(url)
            THEN [data |-> <<>>, sent |-> <<>>, log |-> <<>>,
                  err |-> Some("error creating request: invalid control character in URL")]
            ELSE LET sent == QuerySends(HTTPGet(url), api)
                     log == << LoggedURL(url, apiKey) >>
                 IN IF api.fail = "do"
                    THEN [data |-> <<>>, sent |-> sent, log |-> log,
                          err |-> Some("error making request: connection refused")]
                    ELSE IF api.fail = "read"
                    THEN [data |-> <<>>, sent |-> sent, log |-> log,
                          err |-> Some("error reading response: unexpected EOF")]
                    ELSE LET h == HandleReply(city, api)
                         IN [data |-> h.data, sent |-> sent, log |-> log, err |-> h.err]

(***************************************************************************)
(* processQuery.                                                           *)
(***************************************************************************)
\* ErrDataResponse that drops the error: an empty response without error
ErrDataResponse_Silent(status, message) ==
    [Frames |-> <<>>, Error |-> Nil, Status |-> status]

\* backend.ErrDataResponse(status, message)
ErrDataResponse(status, message) ==
    [Frames |-> <<>>, Error |-> Some(message), Status |-> status]

\* settings are the instance settings of the plugin context, query a
\* backend.DataQuery.  The result is the DataResponse and the requests sent.
\* the query function of the earlier revision (unnamed/part_000): the city is
\* tested before the settings are loaded, and a query without a city gets
\* an empty response instead of an error
processQuery_Legacy(inst, settings, query, api) ==
    LET u == UnmarshalQuery(query.JSON)
        qm == u.qm
        config == LoadPluginSettings(settings)
    IN IF u.err # Nil
       THEN [resp |-> ErrDataResponse(StatusBadRequest, "json unmarshal: " \o u.err[1]),
             sent |-> <<>>, log |-> <<>>]
       ELSE IF qm.City = ""
       THEN [resp |-> [Frames |-> <<>>, Error |-> Nil, Status |-> StatusUnset],
             sent |-> <<>>, log |-> <<>>]
       ELSE IF config.err # Nil
       THEN [resp |-> ErrDataResponse(StatusBadRequest, "Unable to load datasource settings"),
             sent |-> <<>>, log |-> <<>>]
       ELSE LET w == GetHistoricalWeather(inst, qm.City, config.Secrets.ApiKey, qm, api)
                f == createDataFrames(w.data, qm)
            IN IF w.err # Nil
               THEN [resp |-> ErrDataResponse(StatusInternal,
                                "Failed to fetch weather data: " \o w.err[1]),
                     sent |-> w.sent, log |-> w.log]
               ELSE IF f.err # Nil
               THEN [resp |-> ErrDataResponse(StatusInternal,
                                "Failed to create frames: " \o f.err[1]),
                     sent |-> w.sent, log |-> w.log]
               ELSE [resp |-> [Frames |-> << f.frame[1] >>, Error |-> Nil,
                               Status |-> StatusUnset],
                     sent |-> w.sent, log |-> w.log]

processQuery(inst, settings, query, api) ==
    LET u == UnmarshalQuery(query.JSON)
        qm == u.qm
        config == LoadPluginSettings(settings)
    IN IF u.err # Nil
       THEN [resp |-> ErrDataResponse(StatusBadRequest, "json unmarshal: " \o u.err[1]),
             sent |-> <<>>, log |-> <<>>]
       ELSE IF config.err # Nil
       THEN [resp |-> ErrDataResponse(StatusBadRequest, "Unable to load datasource settings"),
             sent |-> <<>>, log |-> <<>>]
       ELSE IF qm.City = ""
       THEN [resp |-> ErrDataResponse(StatusBadRequest, "City is required"),
             sent |-> <<>>, log |-> <<>>]
       ELSE LET w == GetHistoricalWeather(inst, qm.City, config.Secrets.ApiKey, qm, api)
                f == createDataFrames(w.data, qm)
            IN IF w.err # Nil
               THEN [resp |-> ErrDataResponse(StatusInternal,
                                "Failed to fetch weather data: " \o w.err[1]),
                     sent |-> w.sent, log |-> w.log]
               ELSE IF f.err # Nil
               THEN [resp |-> ErrDataResponse(StatusInternal,
                                "Failed to create frames: " \o f.err[1]),
                     sent |-> w.sent, log |-> w.log]
               ELSE [resp |-> [Frames |-> << f.frame[1] >>, Error |-> Nil,
                               Status |-> StatusUnset],
                     sent |-> w.sent, log |-> w.log]

(***************************************************************************)
(* QueryData: the queries of a request, one after another.                 *)
(***************************************************************************)
\* outcomes[i] is what processQuery returns for query i, apis[i] being what
\* the remote API does with the request of query i
QueryOutcomes(inst, settings, queries, apis) ==
    [i \in 1..Len(queries) |-> processQuery(inst, settings, queries[i], apis[i])]

\* response.Responses[q.RefID] = res: a map assignment, which adds the entry
\* or overwrites the one the map holds under that RefID
StoreResponse_KeepsFirst(responses, refID, res) ==
    [r \in DOMAIN responses \cup {refID} |->
        IF r \in DOMAIN responses THEN responses[r] ELSE res]

StoreResponse(responses, refID, res) ==
    [r \in DOMAIN responses \cup {refID} |->
        IF r = refID THEN res ELSE responses[r]]

\* response.Responses after the first n iterations of the loop over
\* req.Queries, starting from the empty map of backend.NewQueryDataResponse
RECURSIVE ResponsesAfter(_, _, _)
ResponsesAfter(queries, outcomes, n) ==
    IF n = 0
    THEN <<>>
    ELSE StoreResponse(ResponsesAfter(queries, outcomes, n - 1),
                       queries[n].RefID, outcomes[n].resp)

\* response.Responses when the loop has ended
ResponsesOf(queries, outcomes) == ResponsesAfter(queries, outcomes, Len(queries))

(***************************************************************************)
(* CheckHealth.                                                            *)
(***************************************************************************)
HealthStatusOk == "OK"

HealthStatusError == "ERROR"

\* the city of the probe request
testCity == "London"

\* the message for a non-200 status that has no message of its own
GenericHealthMessage(status, bodyText) ==
    "API returned error: " \o ToString(status) \o " - " \o bodyText

\* HealthStatusMessage without the branch for 401
HealthStatusMessage_No401(status, bodyText) == GenericHealthMessage(status, bodyText)

\* the message for a probe reply whose status is not 200
HealthStatusMessage(status, bodyText) ==
    IF status = 401
    THEN "Authentication failed: Invalid API key. Please check your API key in the datasource configuration."
    ELSE GenericHealthMessage(status, bodyText)

\* CheckHealth that looks at the settings only and sends no probe
CheckHealth_NoProbe(inst, settings, api) ==
    LET config == LoadPluginSettings(settings)
    IN IF config.err # Nil
       THEN [result |-> [Status |-> HealthStatusError, Message |-> "Unable to load settings"],
             err |-> Nil, sent |-> <<>>, log |-> <<>>]
       ELSE IF config.Secrets.ApiKey = ""
       THEN [result |-> [Status |-> HealthStatusError, Message |-> "API key is missing"],
             err |-> Nil, sent |-> <<>>, log |-> <<>>]
       ELSE [result |-> [Status |-> HealthStatusOk, Message |-> "Data source is working"],
             err |-> Nil, sent |-> <<>>, log |-> <<>>]

\* the result, the Go error returned beside it, the requests sent and the
\* URLs logged
CheckHealth(inst, settings, api) ==
    LET config == LoadPluginSettings(settings)
        baseURL == IF ~HasPrefix(inst.baseURL, "http")
                   THEN "https://api.openweathermap.org/data/2.5/forecast"
                   ELSE inst.baseURL
        url == ForecastURL(baseURL, testCity, config.Secrets.ApiKey, "metric")
        log == << LoggedURL(url, config.Secrets.ApiKey) >>
    IN IF config.err # Nil
       THEN [result |-> [Status |-> HealthStatusError,
                         Message |-> "Unable to load settings: " \o config.err[1]],
             err |-> Nil, sent |-> <<>>, log |-> <<>>]
       ELSE IF KeyMissing(config.Secrets.ApiKey)
       THEN [result |-> [Status |-> HealthStatusError,
                         Message |-> "API key is missing. Please configure a valid OpenWeather API key"],
             err |-> Nil, sent |-> <<>>, log |-> <<>>]
       ELSE IF ~URLParses(url)
       THEN [result |-> [Status |-> HealthStatusError,
                         Message |-> "Failed to create test request: invalid control character in URL"],
             err |-> Nil, sent |-> <<>>, log |-> log]
       ELSE IF api.fail = "do"
       THEN [result |-> [Status |-> HealthStatusError,
                         Message |-> "Failed to connect to OpenWeather API: connection refused"],
             err |-> Nil, sent |-> << HTTPGet(url) >>, log |-> log]
       ELSE IF api.StatusCode # StatusOK
       THEN [result |-> [Status |-> HealthStatusError,
                         Message |-> HealthStatusMessage(api.StatusCode,
                                        IF api.fail = "read" THEN "" ELSE api.body.text)],
             err |-> Nil, sent |-> << HTTPGet(url) >>, log |-> log]
       ELSE [result |-> [Status |-> HealthStatusOk,
                         Message |-> "Successfully connected to OpenWeather API"],
             err |-> Nil, sent |-> << HTTPGet(url) >>, log |-> log]

(***************************************************************************)
(* The state machine.  d is the Datasource instance the host holds (or     *)
(* NoInstance), registered tells whether the metrics collectors of the     *)
(* plugin are registered with the default Prometheus registry, and last    *)
(* is the call of the host that has just run, with everything it returned, *)
(* until the host has taken the result (Return); the host then issues its  *)
(* next call.  calls and requestsTotal belong to the calls the host runs    *)
(* concurrently (SpecConc below); the calls of Spec run one at a time and  *)
(* leave them alone.                                                       *)
(***************************************************************************)
CallIds == 1..MaxCalls

\* a call slot the host has not used yet
FreeCall == [phase |-> "free"]

Idle == [op |-> "idle"]

RefIDs == {"A", "B"}

\* the queries of the requests that carry several: a query that can
\* succeed, one without a city, and one that does not decode
BatchJSONs ==
    { [wellFormed |-> FALSE, obj |-> EmptyObj] }
    \cup
    { [wellFormed |-> TRUE,
       obj |-> applyTemplateVariables(
                  [city |-> c, mainParameter |-> "wind", subParameter |-> "speed",
                   units |-> "metric"])] : c \in {"", "London"} }

BatchQueries == [RefID : RefIDs, JSON : BatchJSONs]

\* the requests of the host: one query each, over all the queries, and
\* requests of up to MaxQueries queries over a few
QueryRequests ==
    { << [RefID |-> "A", JSON |-> j] >> : j \in QueryJSONs }
    \cup UNION { [1..n -> BatchQueries] : n \in 2..MaxQueries }

\* a reply that carries a forecast of one entry, and a 404
FewReplies ==
    { r \in Replies :
        /\ r.fail = "none"
        /\ \/ r.StatusCode = 404
           \/ /\ r.StatusCode = 200
              /\ r.body.wellFormed
              /\ Get(r.body.obj, "cod", "") = "200"
              /\ Len(Get(r.body.obj, "list", <<>>)) = 1
              /\ Get(r.body.obj, "list", <<>>)[1].dt = 10800 }

\* the replies the queries of a request get: every reply for a single query,
\* a few for the queries of a longer request
RepliesFor(queries) ==
    IF Len(queries) = 1 THEN [1..1 -> Replies] ELSE [1..Len(queries) -> FewReplies]

Init ==
    /\ d = NoInstance
    /\ registered = FALSE
    /\ last = Idle
    /\ calls = [c \in CallIds |-> FreeCall]
    /\ requestsTotal = 0
    /\ history = <<>>

\* the factory: load the settings, fix the base URL, register the metrics.
\* prometheus.MustRegister panics when the collectors are registered already.
NewDatasource(settings) ==
    LET config == LoadPluginSettings(settings)
    IN /\ last = Idle
       /\ UNCHANGED <<conc, history>>
       /\ IF config.err # Nil
          THEN /\ last' = [op |-> "NewDatasource", settings |-> settings,
                            outcome |-> "error"]
               /\ UNCHANGED <<d, registered>>
          ELSE IF registered
          THEN /\ last' = [op |-> "NewDatasource", settings |-> settings,
                            outcome |-> "panic"]
               /\ UNCHANGED <<d, registered>>
          ELSE /\ d' = [baseURL |-> NewBaseURL(config.Path)]
               /\ registered' = TRUE
               /\ last' = [op |-> "NewDatasource", settings |-> settings,
                            outcome |-> "ok"]

\* the host drops the instance; Dispose itself only logs
Dispose ==
    /\ last = Idle
    /\ d # NoInstance
    /\ d' = NoInstance
    /\ last' = [op |-> "Dispose"]
    /\ UNCHANGED <<registered, conc, history>>

\* the observation Metrics.RecordRequest makes of a finished request
RecordRequest(operation, err) ==
    [operation |-> operation, status |-> IF err = Nil THEN "success" ELSE "error"]

\* the sequential calls keep the observation in last.recorded; the counter
\* itself is followed where calls overlap (Finish)
QueryData(settings, queries, apis) ==
    /\ last = Idle
    /\ d # NoInstance
    /\ LET outcomes == QueryOutcomes(d, settings, queries, apis)
       IN last' = [op |-> "QueryData", inst |-> d, settings |-> settings,
                   queries |-> queries, apis |-> apis, outcomes |-> outcomes,
                   Responses |-> ResponsesOf(queries, outcomes), err |-> Nil,
                   recorded |-> RecordRequest("query_data", Nil)]
    /\ UNCHANGED <<d, registered, conc, history>>

HealthCheck(settings, api) ==
    /\ last = Idle
    /\ d # NoInstance
    /\ LET h == CheckHealth(d, settings, api)
       IN last' = [op |-> "CheckHealth", inst |-> d, settings |-> settings, api |-> api,
                   result |-> h.result, err |-> h.err, sent |-> h.sent,
                   log |-> h.log]
    /\ UNCHANGED <<d, registered, conc, history>>

\* the call returns: the host takes the result
Return ==
    /\ last # Idle
    /\ last' = Idle
    /\ UNCHANGED <<d, registered, conc, history>>

Next ==
    \/ \E s \in AllSettings : NewDatasource(s)
    \/ Dispose
    \/ \E s \in CallSettings, q \in QueryRequests :
          \E a \in RepliesFor(q) : QueryData(s, q, a)
    \/ \E s \in CallSettings, a \in Replies : HealthCheck(s, a)
    \/ Return

Spec == Init /\ [][Next]_vars

(***************************************************************************)
(* Concurrent calls.  The host runs QueryData and CheckHealth of one       *)
(* instance on separate goroutines.  A call is invoked on the instance     *)
(* (BeginQuery, BeginHealth), reads d.baseURL when it builds its URL       *)
(* (ReadInstance), gets the reply of the remote API and computes its       *)
(* result (Reply), and returns (Finish); the steps of different calls      *)
(* interleave freely.  The only state the calls share is the instance and  *)
(* the collectors of its metrics, whose updates are atomic.                *)
(***************************************************************************)
\* the instances NewDatasource builds
Instances ==
    { [baseURL |-> NewBaseURL(LoadPluginSettings(st).Path)] :
        st \in { t \in AllSettings : LoadPluginSettings(t).err = Nil } }

ConcSettings ==
    { st \in CallSettings :
        /\ st.JSONData.wellFormed
        /\ "apiKey" \in DOMAIN st.DecryptedSecureJSONData }

ConcQueries ==
    { << [RefID |-> "A",
          JSON |-> [wellFormed |-> TRUE,
                    obj |-> applyTemplateVariables(
                               [city |-> c, mainParameter |-> "main",
                                subParameter |-> "temp", units |-> "metric"])]] >> :
        c \in {"", "London"} }

\* the instance after a call has run on it: neither handler assigns to a
\* field of d, the base URL is copied into a local variable
InstanceAfterCall_CachesURL(inst, call) ==
    IF call.op = "QueryData"
    THEN [inst EXCEPT !.baseURL =
            ForecastURL(inst.baseURL, UnmarshalQuery(call.queries[1].JSON).qm.City,
                        "", "metric")]
    ELSE inst

InstanceAfterCall(inst, call) == inst

\* what a call returns when it runs on the instance value inst and the
\* remote API answers with api
CallResult(inst, call, api) ==
    IF call.op = "QueryData"
    THEN LET outcomes == QueryOutcomes(inst, call.settings, call.queries, <<api>>)
         IN [Responses |-> ResponsesOf(call.queries, outcomes),
             outcomes |-> outcomes, err |-> Nil]
    ELSE CheckHealth(inst, call.settings, api)

InitConc ==
    /\ d \in Instances
    /\ registered = TRUE
    /\ last = Idle
    /\ calls = [c \in CallIds |-> FreeCall]
    /\ requestsTotal = 0
    /\ history = <<>>

BeginQuery(c, settings, queries) ==
    /\ calls[c].phase = "free"
    /\ calls' = [calls EXCEPT ![c] =
                   [phase |-> "begun", op |-> "QueryData", inst0 |-> d,
                    settings |-> settings, queries |-> queries]]
    /\ UNCHANGED <<d, registered, last, requestsTotal, history>>

BeginHealth(c, settings) ==
    /\ calls[c].phase = "free"
    /\ calls' = [calls EXCEPT ![c] =
                   [phase |-> "begun", op |-> "CheckHealth", inst0 |-> d,
                    settings |-> settings]]
    /\ UNCHANGED <<d, registered, last, requestsTotal, history>>

ReadInstance(c) ==
    /\ calls[c].phase = "begun"
    /\ calls' = [calls EXCEPT ![c] =
                   [phase |-> "running", op |-> calls[c].op, inst0 |-> calls[c].inst0,
                    call |-> calls[c], seen |-> d]]
    /\ d' = InstanceAfterCall(d, calls[c])
    /\ UNCHANGED <<registered, last, requestsTotal, history>>

Reply(c, api) ==
    /\ calls[c].phase = "running"
    /\ calls' = [calls EXCEPT ![c] =
                   [phase |-> "done", op |-> calls[c].op, inst0 |-> calls[c].inst0,
                    call |-> calls[c].call, api |-> api,
                    result |-> CallResult(calls[c].seen, calls[c].call, api)]]
    /\ UNCHANGED <<d, registered, last, requestsTotal, history>>

\* QueryData records the request in the metrics before it returns
Finish(c) ==
    /\ calls[c].phase = "done"
    /\ calls' = [calls EXCEPT ![c] = [phase |-> "returned", op |-> calls[c].op]]
    /\ requestsTotal' = IF calls[c].op = "QueryData" THEN requestsTotal + 1
                                                      ELSE requestsTotal
    /\ UNCHANGED <<d, registered, last, history>>

NextConc ==
    \/ \E c \in CallIds, s \in ConcSettings, q \in ConcQueries : BeginQuery(c, s, q)
    \/ \E c \in CallIds, s \in ConcSettings : BeginHealth(c, s)
    \/ \E c \in CallIds : ReadInstance(c)
    \/ \E c \in CallIds, a \in FewReplies : Reply(c, a)
    \/ \E c \in CallIds : Finish(c)

SpecConc == InitConc /\ [][NextConc]_vars

(***************************************************************************)
(* Successive queries.  history keeps the queries one instance has         *)
(* processed, oldest first, each with the settings of its call, what the   *)
(* remote API did with its request, and its outcome.  Every step is one    *)
(* QueryData call that carries one query.                                  *)
(***************************************************************************)
SeqQueries ==
    { [RefID |-> "A",
       JSON |-> [wellFormed |-> TRUE,
                 obj |-> applyTemplateVariables(
                            [city |-> c, mainParameter |-> "main",
                             subParameter |-> "temp", units |-> "metric"])]] :
        c \in Cities }
    \cup
    { [RefID |-> "A",
       JSON |-> [wellFormed |-> TRUE,
                 obj |-> applyTemplateVariables(
                            [city |-> "London", mainParameter |-> "wind",
                             subParameter |-> "speed", units |-> "metric"])]] }

\* a 404 and two replies that carry different forecasts of one entry
SeqReplies ==
    { r \in Replies :
        /\ r.fail = "none"
        /\ \/ r.StatusCode = 404
           \/ /\ r.StatusCode = 200
              /\ r.body.wellFormed
              /\ Get(r.body.obj, "cod", "") = "200"
              /\ Len(Get(r.body.obj, "list", <<>>)) = 1
              /\ Get(r.body.obj, "list", <<>>)[1].dt > 0 }

\* ReplyRead that keeps the reply of an earlier query for the same city and
\* serves it again
ReplyRead_Cached(past, query, api) ==
    LET hits == { n \in 1..Len(past) :
                    /\ past[n].query.JSON = query.JSON
                    /\ past[n].outcome.resp.Error = Nil }
    IN IF hits = {} THEN api
       ELSE past[CHOOSE n \in hits : \A m \in hits : n <= m].api

\* the reply a query is answered from: the response of the request it has
\* just sent, whatever the queries before it (past) were answered with
ReplyRead(past, query, api) == api

InitSeq ==
    /\ d \in Instances
    /\ registered = TRUE
    /\ last = Idle
    /\ calls = [c \in CallIds |-> FreeCall]
    /\ requestsTotal = 0
    /\ history = <<>>

QueryDataSeq(settings, query, api) ==
    /\ Len(history) < MaxHistory
    /\ history' = Append(history,
                     [inst |-> d, settings |-> settings, query |-> query, api |-> api,
                      outcome |-> processQuery(d, settings, query,
                                               ReplyRead(history, query, api)),
                      recorded |-> RecordRequest("query_data", Nil)])
    /\ UNCHANGED <<d, registered, last, conc>>

NextSeq ==
    \E s \in ConcSettings, q \in SeqQueries, a \in SeqReplies : QueryDataSeq(s, q, a)

SpecSeq == InitSeq /\ [][NextSeq]_vars

(***************************************************************************)
(* What the claims speak about, read off the recorded call.                *)
(***************************************************************************)
IsQuery == last.op = "QueryData"

IsHealth == last.op = "CheckHealth"

QueryIdx == IF IsQuery THEN 1..Len(last.queries) ELSE {}

\* query i is the last query of the request that carries its RefID: its
\* response is the one the response map keeps
LastWithRefID(i) ==
    \A j \in QueryIdx : last.queries[j].RefID = last.queries[i].RefID => j <= i

\* the key the settings of the call configure ("" when none can be read)
ConfiguredKey == LoadPluginSettings(last.settings).Secrets.ApiKey

SettingsLoad == LoadPluginSettings(last.settings).err = Nil

\* the query object of query i as the host sent it
QObj(i) == last.queries[i].JSON.obj

Decodes(i) == last.queries[i].JSON.wellFormed

CityOf(i) == Get(QObj(i), "city", "")

\* query i returned a frame
Succeeded(i) == Len(last.outcomes[i].resp.Frames) > 0

FrameOf(i) == last.outcomes[i].resp.Frames[1]

\* the forecast list of the reply to query i, as JSON
ReplyList(i) == last.apis[i].body.obj.list

(***************************************************************************)
(* C1: CheckHealth returns status Error whenever the configured API key is *)
(* empty, whatever the base URL of the instance and whatever the remote    *)
(* API would do.                                                           *)
(***************************************************************************)
C1_MissingKeyIsHealthError ==
    (IsHealth /\ Get(last.settings.DecryptedSecureJSONData, "apiKey", "") = "")
        => last.result.Status = HealthStatusError

\* a health check without key on an instance with a custom base URL, while
\* the remote API would have answered 200
C1_Witness ==
    /\ IsHealth
    /\ SettingsLoad
    /\ Get(last.settings.DecryptedSecureJSONData, "apiKey", "") = ""
    /\ last.api.fail = "none" /\ last.api.StatusCode = 200
    /\ last.inst.baseURL # DefaultForecastURL
    /\ last.result.Status = HealthStatusError

(***************************************************************************)
(* C2: for a query the editor can produce and a successful forecast reply, *)
(* entry k of the value column is the field of forecast entry k that the   *)
(* requested (main parameter, sub parameter) pair names; an entry that     *)
(* lacks the field contributes 0.                                          *)
(***************************************************************************)
\* forecast entry e has the member main.sub
HasMember(e, main, sub) == main \in DOMAIN e /\ sub \in DOMAIN e[main]

RequestedPair(i) == << Get(QObj(i), "mainParameter", ""), Get(QObj(i), "subParameter", "") >>

C2_ValueColumnIsRequestedField ==
    \A i \in QueryIdx :
        (Succeeded(i) /\ RequestedPair(i) \in EditorPairs) =>
            LET p == RequestedPair(i)
                values == FrameOf(i).Fields[2].Values
            IN /\ Len(values) = Len(ReplyList(i))
               /\ \A k \in 1..Len(ReplyList(i)) :
                     values[k] = IF HasMember(ReplyList(i)[k], p[1], p[2])
                                 THEN ReplyList(i)[k][p[1]][p[2]]
                                 ELSE 0

\* a frame for wind.gust over two entries of which only the first has a gust
C2_Witness ==
    \E i \in QueryIdx :
        /\ Succeeded(i)
        /\ RequestedPair(i) = <<"wind", "gust">>
        /\ Len(ReplyList(i)) = 2
        /\ HasMember(ReplyList(i)[1], "wind", "gust")
        /\ ~HasMember(ReplyList(i)[2], "wind", "gust")
        /\ FrameOf(i).Fields[2].Values = << 23, 0 >>

(***************************************************************************)
(* C3: the request of a query is a GET to                                  *)
(* <baseURL>?q=<city>&appid=<key>&units=<units>, with the city of the      *)
(* query, the configured key and the units the query carries.              *)
(***************************************************************************)
UnitsOf(i) == Get(QObj(i), "units", "")

C3_RequestCarriesQueryUnits ==
    \A i \in QueryIdx :
        \A k \in 1..Len(last.outcomes[i].sent) :
          UnitsOf(i) \in unitsOptions =>
            /\ last.outcomes[i].sent[k].Method = "GET"
            /\ last.outcomes[i].sent[k].URL =
                  ForecastURL(last.inst.baseURL, CityOf(i), ConfiguredKey, UnitsOf(i))

\* what the code does instead: city and key are those of the query and of
\* the settings, the units are always metric
C3_RequestIsMetric ==
    \A i \in QueryIdx :
        \A k \in 1..Len(last.outcomes[i].sent) :
            /\ last.outcomes[i].sent[k].Method = "GET"
            /\ last.outcomes[i].sent[k].URL =
                  ForecastURL(last.inst.baseURL, CityOf(i), ConfiguredKey, "metric")

\* a query in imperial units that was sent
C3_Witness ==
    \E i \in QueryIdx :
        /\ UnitsOf(i) = "imperial"
        /\ Len(last.outcomes[i].sent) = 1

(***************************************************************************)
(* C4: processing one query issues at most one HTTP request, and exactly   *)
(* one when the query JSON decodes, the city is non-empty and the API key  *)
(* is non-empty; no failure is followed by a second request.               *)
(***************************************************************************)
C4_ExactlyOneWhenValid ==
    \A i \in QueryIdx :
        /\ Len(last.outcomes[i].sent) <= 1
        /\ (Decodes(i) /\ CityOf(i) # "" /\ ConfiguredKey # "")
              => Len(last.outcomes[i].sent) = 1

\* C4 as amended: at most one request; exactly one if and only if the query
\* JSON decodes, the settings load, the city and the key are non-empty and
\* http.NewRequest accepts the URL
C4_AtMostOneRequest ==
    \A i \in QueryIdx :
        /\ Len(last.outcomes[i].sent) <= 1
        /\ Len(last.outcomes[i].sent) = 1 <=>
              /\ Decodes(i)
              /\ SettingsLoad
              /\ CityOf(i) # ""
              /\ ConfiguredKey # ""
              /\ URLParses(ForecastURL(last.inst.baseURL, CityOf(i), ConfiguredKey, "metric"))

\* a query whose one request met a transport error, and was not repeated
C4_Witness ==
    \E i \in QueryIdx :
        /\ last.apis[i].fail = "do"
        /\ Len(last.outcomes[i].sent) = 1
        /\ last.outcomes[i].resp.Error # Nil

(***************************************************************************)
(* C5: malformed query JSON, a missing API key, a non-200 reply and a      *)
(* reply body that fails JSON decoding each make the DataResponse of the   *)
(* query carry an error and no frame.                                      *)
(***************************************************************************)
\* the error cause of query i, if it is one of the four
MalformedQuery(i) == ~Decodes(i)

MissingKey(i) == ConfiguredKey = ""

Non200Reply(i) ==
    /\ Len(last.outcomes[i].sent) > 0
    /\ last.apis[i].fail = "none"
    /\ last.apis[i].StatusCode # 200

UndecodableBody(i) ==
    /\ Len(last.outcomes[i].sent) > 0
    /\ last.apis[i].fail = "none"
    /\ last.apis[i].StatusCode = 200
    /\ ~last.apis[i].body.wellFormed

C5_ErrorCausesFailTheQuery ==
    \A i \in QueryIdx :
        (MalformedQuery(i) \/ MissingKey(i) \/ Non200Reply(i) \/ UndecodableBody(i))
            => /\ last.outcomes[i].resp.Error # Nil
               /\ last.outcomes[i].resp.Frames = <<>>
               /\ LastWithRefID(i) => last.Responses[last.queries[i].RefID].Error # Nil

\* a query that failed on a body that is no JSON, after a 200 reply
C5_Witness ==
    \E i \in QueryIdx :
        /\ UndecodableBody(i)
        /\ last.outcomes[i].resp.Error # Nil
        /\ last.outcomes[i].resp.Status = StatusInternal

(***************************************************************************)
(* C6: in the query path the replies 401, 404 and 429 each produce an      *)
(* error message of their own: it differs from the message the same query  *)
(* gets for any other non-200 status, and it is not the generic message.   *)
(***************************************************************************)
OwnMessageCodes == {401, 404, 429}

\* the error of query i had the remote API answered with status c instead
ErrorUnderStatus(i, c) ==
    processQuery(last.inst, last.settings, last.queries[i],
                 [last.apis[i] EXCEPT !.StatusCode = c]).resp.Error

C6_QueryStatusMessagesDiffer ==
    \A i \in QueryIdx :
        (Non200Reply(i) /\ last.apis[i].StatusCode \in OwnMessageCodes) =>
            LET e == last.outcomes[i].resp.Error
                c == last.apis[i].StatusCode
            IN /\ e # Nil
               /\ \A c2 \in StatusCodes \ {200, c} : ErrorUnderStatus(i, c2) # e
               /\ e # Some("Failed to fetch weather data: "
                           \o GenericQueryError(c, last.apis[i].body.text))

\* a query answered 429
C6_Witness ==
    \E i \in QueryIdx :
        /\ Non200Reply(i)
        /\ last.apis[i].StatusCode = 429
        /\ last.outcomes[i].resp.Error # Nil

(***************************************************************************)
(* C7: in the health check every non-200 probe reply yields status Error,  *)
(* and 401, 404 and 429 each have a user message of their own instead of   *)
(* the generic non-200 message.                                            *)
(***************************************************************************)
\* the probe was sent and answered with a status other than 200
ProbeNon200 ==
    /\ IsHealth
    /\ Len(last.sent) > 0
    /\ last.api.fail = "none"
    /\ last.api.StatusCode # 200

C7_HealthDistinguishesThreeCodes ==
    ProbeNon200 =>
        /\ last.result.Status = HealthStatusError
        /\ last.api.StatusCode \in OwnMessageCodes =>
              last.result.Message # GenericHealthMessage(last.api.StatusCode, last.api.body.text)

\* C7 as amended: every non-200 probe reply yields Error; 401 alone has a
\* message of its own, every other status (404 and 429 among them) gets
\* the generic message, which names the status code
C7_HealthDistinguishes401Only ==
    ProbeNon200 =>
        /\ last.result.Status = HealthStatusError
        /\ last.api.StatusCode = 401 <=>
              last.result.Message # GenericHealthMessage(last.api.StatusCode, last.api.body.text)

\* a probe answered 404, reported with the generic message
C7_Witness ==
    /\ ProbeNon200
    /\ last.api.StatusCode = 404
    /\ last.result.Message = "API returned error: 404 - {cod:404}"

(***************************************************************************)
(* C8: CheckHealth returns Ok only if the key is non-empty and the probe   *)
(* for the test city was sent and answered with HTTP 200; in every other   *)
(* outcome it returns Error; it never returns a Go error.                  *)
(***************************************************************************)
ProbeRequest == HTTPGet(ForecastURL(last.inst.baseURL, "London", ConfiguredKey, "metric"))

C8_HealthOkOnlyAfterProbe200 ==
    IsHealth =>
        /\ last.err = Nil
        /\ last.result.Status \in {HealthStatusOk, HealthStatusError}
        /\ last.result.Status = HealthStatusOk <=>
              /\ SettingsLoad
              /\ ConfiguredKey # ""
              /\ last.sent = << ProbeRequest >>
              /\ last.api.fail # "do"
              /\ last.api.StatusCode = 200

\* a health check that probed and got 200
C8_Witness ==
    /\ IsHealth
    /\ last.result.Status = HealthStatusOk
    /\ last.sent = << ProbeRequest >>

(***************************************************************************)
(* C9: in every frame a query returns all columns have the length of the   *)
(* forecast list of the reply, and row k is built from forecast entry k in *)
(* reply order: its time is dt_k seconds after the epoch, its description  *)
(* the description of the first weather element of entry k (empty when     *)
(* there is none), its value the value selected from entry k.              *)
(***************************************************************************)
C9_RowsFollowReplyOrder ==
    \A i \in QueryIdx :
        Succeeded(i) =>
            LET f == FrameOf(i).Fields
                l == ReplyList(i)
                qm == UnmarshalQuery(last.queries[i].JSON).qm
            IN /\ Len(f) = 3
               /\ \A c \in 1..3 : Len(f[c].Values) = Len(l)
               /\ \A k \in 1..Len(l) :
                     /\ f[1].Values[k] = [sec |-> l[k].dt, nsec |-> 0]
                     /\ f[2].Values[k] = SelectValue(UnmarshalItem(l[k]), qm)
                     /\ f[3].Values[k] = IF Len(l[k].weather) > 0
                                         THEN l[k].weather[1].description
                                         ELSE ""

\* a frame of two rows from two different entries, the later entry first
C9_Witness ==
    \E i \in QueryIdx :
        /\ Succeeded(i)
        /\ Len(ReplyList(i)) = 2
        /\ ReplyList(i)[1].dt > ReplyList(i)[2].dt
        /\ FrameOf(i).Fields[1].Values[1].sec = 21600
        /\ FrameOf(i).Fields[3].Values = << "", "light rain" >>

(***************************************************************************)
(* C10: the frame of a successful query has a time column and a value      *)
(* column, and the value column is keyed by the requested parameter path:  *)
(* a query for a different (main parameter, sub parameter) path gets a     *)
(* value column with a different key.                                      *)
(***************************************************************************)
\* the paths a query can name: the editor's and those of hand-written queries
BackendPaths ==
    EditorPairs \cup
    { << o.metric, o.format >> : o \in { r \in RawQueryObjects : "metric" \in DOMAIN r } }

PathOf(i) ==
    << UnmarshalQuery(last.queries[i].JSON).qm.Metric,
       UnmarshalQuery(last.queries[i].JSON).qm.Format >>

\* the key of the value column of a query for path p
KeyForPath(p) ==
    ValueFieldName([City |-> "London", Format |-> p[2], Metric |-> p[1], Units |-> "metric"])

C10_ValueColumnKeyedByPath ==
    \A i \in QueryIdx :
        Succeeded(i) =>
            /\ FrameOf(i).Fields[1].Name = "time"
            /\ \A p \in BackendPaths \ {PathOf(i)} :
                  KeyForPath(p) # FrameOf(i).Fields[2].Name

\* C10 as amended: the value column is keyed by the sub parameter alone;
\* among the paths of the query editor, whose sub parameter names are all
\* different, a different path gets a different key
C10_ValueColumnKeyedBySubParameter ==
    \A i \in QueryIdx :
        Succeeded(i) =>
            /\ FrameOf(i).Fields[1].Name = "time"
            /\ FrameOf(i).Fields[2].Name = Get(QObj(i), "format", "")
            /\ PathOf(i) \in EditorPairs =>
                  \A p \in EditorPairs \ {PathOf(i)} :
                      KeyForPath(p) # FrameOf(i).Fields[2].Name

\* a frame for the path wind.temp, whose value column has the key of main.temp
C10_Witness ==
    \E i \in QueryIdx :
        /\ Succeeded(i)
        /\ PathOf(i) = <<"wind", "temp">>
        /\ FrameOf(i).Fields[2].Name = KeyForPath(<<"main", "temp">>)

(***************************************************************************)
(* C11.  Calls that run concurrently on one instance do not disturb each   *)
(* other: under every interleaving of their steps the instance a call was  *)
(* invoked on is still the instance (no call has written a field of it),   *)
(* every call that has its result has the result it computes alone on that *)
(* instance from the same reply, and the request counter has counted every *)
(* returned QueryData once.                                                *)
(***************************************************************************)
InFlight(c) == calls[c].phase \in {"begun", "running", "done"}

C11_ConcurrentCallsRunAsAlone ==
    /\ \A c \in CallIds : InFlight(c) => calls[c].inst0 = d
    /\ \A c \in CallIds :
          calls[c].phase = "done"
              => calls[c].result = CallResult(calls[c].inst0, calls[c].call, calls[c].api)
    /\ requestsTotal =
          Cardinality({ c \in CallIds :
                          calls[c].phase = "returned" /\ calls[c].op = "QueryData" })

\* a query and a health check overlap; both have their results, the query a
\* frame and the health check an error
C11_Witness ==
    \E c1, c2 \in CallIds :
        /\ calls[c1].phase = "done" /\ calls[c1].op = "QueryData"
        /\ calls[c1].result.Responses["A"].Error = Nil
        /\ Len(calls[c1].result.Responses["A"].Frames) = 1
        /\ calls[c2].phase = "done" /\ calls[c2].op = "CheckHealth"
        /\ calls[c2].result.result.Status = HealthStatusError
        /\ calls[c2].result.sent # <<>>

(***************************************************************************)
(* C12.  The lifecycle supports re-creation: every NewDatasource call      *)
(* whose settings load returns an instance and a nil error, also when an   *)
(* earlier instance of the process has registered its metrics collectors.  *)
(* The second call of NewMetrics registers collectors of the same names,   *)
(* prometheus.MustRegister panics, and the statement fails.                *)
(***************************************************************************)
C12_EveryLoadableCreateSucceeds ==
    (last.op = "NewDatasource" /\ LoadPluginSettings(last.settings).err = Nil)
        => /\ last.outcome = "ok"
           /\ d # NoInstance

(***************************************************************************)
(* C13.  QueryData returns a nil error and a response map with exactly     *)
(* one entry per distinct RefID of the request.  Every query is processed, *)
(* in request order, to the outcome it has when it is the only query of a  *)
(* request (a failure of an earlier query neither stops nor alters it),    *)
(* and the entry of a RefID holds the response of the last query that      *)
(* carries it.                                                             *)
(***************************************************************************)
C13_OneEntryPerRefID ==
    IsQuery =>
        /\ last.err = Nil
        /\ DOMAIN last.Responses = { last.queries[i].RefID : i \in QueryIdx }
        /\ \A i \in QueryIdx :
              /\ last.outcomes[i] =
                    processQuery(last.inst, last.settings, last.queries[i], last.apis[i])
              /\ LastWithRefID(i)
                    => last.Responses[last.queries[i].RefID] = last.outcomes[i].resp

\* two queries under one RefID: the first fails for want of a city, the
\* second gets a frame, and the entry holds the frame
C13_Witness ==
    /\ IsQuery
    /\ Len(last.queries) = 2
    /\ last.queries[1].RefID = last.queries[2].RefID
    /\ last.outcomes[1].resp.Error # Nil
    /\ last.outcomes[2].resp.Error = Nil
    /\ last.outcomes[2].sent # <<>>
    /\ Len(last.Responses[last.queries[2].RefID].Frames) = 1

(***************************************************************************)
(* C14.  The URL a call logs never holds the API key: no logged URL of a   *)
(* query or of a health check has the configured key as a substring,       *)
(* whatever the city and the base URL.  The code hides the first           *)
(* occurrence of the key's text only, so a city that holds that text       *)
(* leaves the appid parameter in the clear.                                *)
(***************************************************************************)
HoldsKey(line) == ConfiguredKey # "" /\ Index(line, ConfiguredKey) # 0

C14_LoggedURLHidesKey ==
    /\ IsQuery =>
          \A i \in QueryIdx :
              \A k \in 1..Len(last.outcomes[i].log) : ~HoldsKey(last.outcomes[i].log[k])
    /\ IsHealth =>
          \A k \in 1..Len(last.log) : ~HoldsKey(last.log[k])

(***************************************************************************)
(* C15.  A query whose city is empty sends no HTTP request and is answered *)
(* with a bad-request error and no frame.  As stated, with the error       *)
(* "City is required" for every such query, it fails: processQuery loads   *)
(* the settings of the call before it looks at the city, and when they do  *)
(* not load the error is the settings error.  It holds with "City is       *)
(* required" for the calls whose settings load.                            *)
(***************************************************************************)
EmptyCity(i) == Decodes(i) /\ CityOf(i) = ""

FailingSteps(i) ==
    LET url == ForecastURL(last.inst.baseURL, CityOf(i), ConfiguredKey, "metric")
        body == UnmarshalWeatherResponse(last.apis[i].body)
    IN   (IF ~Decodes(i) THEN {1} ELSE {})
    \cup (IF ~SettingsLoad THEN {2} ELSE {})
    \cup (IF CityOf(i) = "" THEN {3} ELSE {})
    \cup (IF ConfiguredKey = "" THEN {4} ELSE {})
    \cup (IF ~URLParses(url) \/ last.apis[i].fail # "none" THEN {5} ELSE {})
    \cup (IF last.apis[i].StatusCode # 200 THEN {6} ELSE {})
    \cup (IF body.err # Nil THEN {7} ELSE {})
    \cup (IF body.v.Cod # "200" \/ body.v.List = <<>> THEN {8} ELSE {})

\* the step whose error the message msg is
StepOfError(i, msg) ==
    LET fetch == "Failed to fetch weather data: "
    IN IF HasPrefix(msg, "json unmarshal: ") THEN 1
       ELSE IF msg = "Unable to load datasource settings" THEN 2
       ELSE IF msg = "City is required" THEN 3
       ELSE IF HasPrefix(msg, fetch \o "missing API key") THEN 4
       ELSE IF \/ HasPrefix(msg, fetch \o "error creating request")
               \/ HasPrefix(msg, fetch \o "error making request")
               \/ HasPrefix(msg, fetch \o "error reading response") THEN 5
       ELSE IF msg = fetch \o QueryStatusError(last.apis[i].StatusCode, CityOf(i),
                                              last.apis[i].body.text) THEN 6
       ELSE IF HasPrefix(msg, fetch \o "error unmarshalling response") THEN 7
       ELSE IF HasPrefix(msg, fetch \o "API returned") THEN 8
       ELSE 0

Earliest(steps) == CHOOSE k \in steps : \A j \in steps : k <= j

C16_ErrorOfEarliestFailingStep ==
    IsQuery =>
        \A i \in QueryIdx :
            LET o == last.outcomes[i]
            IN IF FailingSteps(i) = {}
               THEN o.resp.Error = Nil /\ Len(o.resp.Frames) = 1 /\ Len(o.sent) = 1
               ELSE /\ o.resp.Error # Nil
                    /\ StepOfError(i, o.resp.Error[1]) = Earliest(FailingSteps(i))
                    /\ o.resp.Frames = <<>>
                    /\ Earliest(FailingSteps(i)) < 5 => o.sent = <<>>
                    /\ Len(o.sent) <= 1

\* two queries of a request whose settings hold no key and whose replies
\* would be 404: the one without a city reports the city error, the other
\* the key error, and neither sends a request
C16_Witness ==
    /\ IsQuery
    /\ Len(last.queries) = 2
    /\ FailingSteps(1) = {3, 4, 6, 8}
    /\ last.outcomes[1].resp.Error = Some("City is required")
    /\ FailingSteps(2) = {4, 6, 8}
    /\ StepOfError(2, last.outcomes[2].resp.Error[1]) = 4
    /\ last.outcomes[2].sent = <<>>

(***************************************************************************)
(* C17.  For every (mainParameter, subParameter) pair the editor offers,   *)
(* the frontend sends that pair as (metric, format), the backend decodes   *)
(* it and its switch ends in the case of that pair, never in a default     *)
(* branch, and the value of every entry that has the field is the field.   *)
(***************************************************************************)
QueryModelOf(i) == UnmarshalQuery(last.queries[i].JSON).qm

FromEditor(i) == Decodes(i) /\ RequestedPair(i) \in EditorPairs

C17_EditorPairReachesItsCase ==
    \A i \in QueryIdx :
        FromEditor(i) =>
            /\ << QueryModelOf(i).Metric, QueryModelOf(i).Format >> = RequestedPair(i)
            /\ ~DefaultBranch(QueryModelOf(i))
            /\ Succeeded(i) =>
                  \A k \in 1..Len(ReplyList(i)) :
                      HasMember(ReplyList(i)[k], RequestedPair(i)[1], RequestedPair(i)[2])
                          => FrameOf(i).Fields[2].Values[k] =
                                ReplyList(i)[k][RequestedPair(i)[1]][RequestedPair(i)[2]]

\* a frame for main.grnd_level whose first entry has the field: the value is
\* the ground level and not the temperature
C17_Witness ==
    /\ IsQuery
    /\ FromEditor(1)
    /\ RequestedPair(1) = << "main", "grnd_level" >>
    /\ Succeeded(1)
    /\ Len(ReplyList(1)) >= 1
    /\ HasMember(ReplyList(1)[1], "main", "grnd_level")
    /\ FrameOf(1).Fields[2].Values[1] = 17

(***************************************************************************)
(* C18.  Value selection is total.  Every query whose request got a        *)
(* usable reply gets its frame, whatever its selectors are, and the value  *)
(* of an entry is: main.temp for a metric outside main, wind, clouds and   *)
(* rain; main.temp for an unknown format under main, wind.speed for one    *)
(* under wind; clouds.all and rain.3h whatever the format; 0 for rain when *)
(* the entry has no rain object.  The description is that of the first     *)
(* weather element, and "" when the entry has none.                        *)
(***************************************************************************)
\* member sub of object main of the JSON entry e, 0 when it is absent
JSONField(e, main, sub) == IF HasMember(e, main, sub) THEN e[main][sub] ELSE 0

KnownFormats(m) ==
    CASE m = "main" -> {"temp", "feels_like", "temp_min", "temp_max", "pressure",
                        "sea_level", "grnd_level", "humidity"}
      [] m = "wind" -> {"speed", "deg", "gust"}
      [] OTHER -> {}

SelectedByRule(e, m, f) ==
    CASE m = "main" -> IF f \in KnownFormats(m) THEN JSONField(e, "main", f)
                                                 ELSE JSONField(e, "main", "temp")
      [] m = "wind" -> IF f \in KnownFormats(m) THEN JSONField(e, "wind", f)
                                                 ELSE JSONField(e, "wind", "speed")
      [] m = "clouds" -> JSONField(e, "clouds", "all")
      [] m = "rain" -> JSONField(e, "rain", "3h")
      [] OTHER -> JSONField(e, "main", "temp")

DescriptionByRule(e) ==
    IF "weather" \in DOMAIN e /\ Len(e.weather) > 0 THEN e.weather[1].description ELSE ""

\* the request of query i was sent and answered with a forecast document
\* that lists at least one entry
UsableReply(i) ==
    /\ last.outcomes[i].sent # <<>>
    /\ last.apis[i].fail = "none"
    /\ last.apis[i].StatusCode = StatusOK
    /\ last.apis[i].body.wellFormed
    /\ Get(last.apis[i].body.obj, "cod", "") = "200"
    /\ Len(Get(last.apis[i].body.obj, "list", <<>>)) > 0

C18_SelectionIsTotal ==
    \A i \in QueryIdx :
        UsableReply(i) =>
            /\ Succeeded(i)
            /\ last.outcomes[i].resp.Error = Nil
            /\ Len(FrameOf(i).Fields[2].Values) = Len(ReplyList(i))
            /\ \A k \in 1..Len(ReplyList(i)) :
                  /\ FrameOf(i).Fields[2].Values[k] =
                        SelectedByRule(ReplyList(i)[k], QueryModelOf(i).Metric,
                                       QueryModelOf(i).Format)
                  /\ FrameOf(i).Fields[3].Values[k] = DescriptionByRule(ReplyList(i)[k])

\* wind with the unknown format temp over an entry without rain and without
\* weather elements: the value is the wind speed, the description empty
C18_Witness ==
    /\ IsQuery
    /\ UsableReply(1)
    /\ QueryModelOf(1).Metric = "wind" /\ QueryModelOf(1).Format = "temp"
    /\ "rain" \notin DOMAIN ReplyList(1)[1]
    /\ FrameOf(1).Fields[2].Values[1] = 41
    /\ FrameOf(1).Fields[3].Values[1] = ""

(***************************************************************************)
(* C19.  Every DataResponse processQuery returns, and so every entry of    *)
(* the response map, has one of two shapes: exactly one frame and no       *)
(* error, or an error and no frame.                                        *)
(***************************************************************************)
FrameShape(resp) == Len(resp.Frames) = 1 /\ resp.Error = Nil

ErrorShape(resp) == resp.Frames = <<>> /\ resp.Error # Nil

C19_FrameOrError ==
    IsQuery =>
        /\ \A i \in QueryIdx :
              FrameShape(last.outcomes[i].resp) # ErrorShape(last.outcomes[i].resp)
        /\ \A r \in DOMAIN last.Responses :
              FrameShape(last.Responses[r]) # ErrorShape(last.Responses[r])

\* a request whose two entries have the two shapes
C19_Witness ==
    /\ IsQuery
    /\ DOMAIN last.Responses = {"A", "B"}
    /\ FrameShape(last.Responses["A"])
    /\ ErrorShape(last.Responses["B"])
    /\ last.Responses["B"].Status = StatusInternal

(***************************************************************************)
(* C20.  The baseURL of every instance starts with "http": the default     *)
(* forecast URL for an empty path, "https://" and the path for a path      *)
(* without scheme, the path itself otherwise.  No call changes it.  So the *)
(* handlers never replace it by their fallback URLs, and the requests of   *)
(* queries and of health checks on an instance go to the same endpoint,    *)
(* the baseURL of the instance.                                            *)
(***************************************************************************)
ConfiguredPath(settings) == Get(settings.JSONData.obj, "path", "")

\* the URL of every request in sent addresses endpoint
Addresses(sent, endpoint) ==
    \A k \in 1..Len(sent) : HasPrefix(sent[k].URL, endpoint \o "?q=")

C20_BaseURLIsFixedEndpoint ==
    /\ d # NoInstance => HasPrefix(d.baseURL, "http")
    /\ (last.op = "NewDatasource" /\ last.outcome = "ok") =>
          d.baseURL =
              IF ConfiguredPath(last.settings) = ""
              THEN "https://api.openweathermap.org/data/2.5/forecast"
              ELSE IF HasPrefix(ConfiguredPath(last.settings), "http")
              THEN ConfiguredPath(last.settings)
              ELSE "https://" \o ConfiguredPath(last.settings)
    /\ IsQuery =>
          /\ d = last.inst
          /\ \A i \in QueryIdx : Addresses(last.outcomes[i].sent, d.baseURL)
    /\ IsHealth =>
          /\ d = last.inst
          /\ Addresses(last.sent, d.baseURL)

\* a query sent to the endpoint of an instance configured with a path
\* without scheme
C20_Witness ==
    /\ IsQuery
    /\ d.baseURL = "https://api.example.org/forecast"
    /\ last.outcomes[1].sent # <<>>
    /\ HasPrefix(last.outcomes[1].sent[1].URL, "https://api.example.org/forecast?q=London&")

(***************************************************************************)
(* C21.  Nothing is cached between queries.  Over every sequence of        *)
(* queries on one instance, each query is answered as if it were the       *)
(* first: a query that passes every test before the send issues exactly    *)
(* one GET of its own, for its own city, and its response is the one       *)
(* built from the reply to that GET.  So when a query is repeated and the  *)
(* two replies carry different forecasts, the two frames differ.           *)
(***************************************************************************)
\* query n of the history passes the tests that precede the send
PassesValidation(n) ==
    LET h == history[n]
        key == LoadPluginSettings(h.settings).Secrets.ApiKey
        city == Get(h.query.JSON.obj, "city", "")
    IN /\ h.query.JSON.wellFormed
       /\ LoadPluginSettings(h.settings).err = Nil
       /\ city # ""
       /\ key # ""
       /\ URLParses(ForecastURL(h.inst.baseURL, city, key, "metric"))

HasFrame(n) == Len(history[n].outcome.resp.Frames) = 1

C21_NothingCached ==
    \A n \in 1..Len(history) :
        LET h == history[n]
        IN /\ h.inst = d
           /\ h.outcome = processQuery(h.inst, h.settings, h.query, h.api)
           /\ PassesValidation(n) =>
                 /\ Len(h.outcome.sent) = 1
                 /\ HasPrefix(h.outcome.sent[1].URL,
                              h.inst.baseURL \o "?q=" \o Get(h.query.JSON.obj, "city", "")
                                  \o "&appid=")
           /\ \A m \in 1..(n - 1) :
                 ( /\ history[m].query = h.query
                   /\ HasFrame(m) /\ HasFrame(n)
                   /\ history[m].api.body.obj.list # h.api.body.obj.list )
                     => history[m].outcome.resp.Frames # h.outcome.resp.Frames

\* the same query twice in succession, answered with two different
\* forecasts: both get a frame, and the frames differ
C21_Witness ==
    /\ Len(history) >= 2
    /\ history[1].query = history[2].query
    /\ history[1].settings = history[2].settings
    /\ HasFrame(1) /\ HasFrame(2)
    /\ history[1].api # history[2].api
    /\ history[1].outcome.resp.Frames[1].Fields[2].Values = << 11 >>
    /\ history[2].outcome.resp.Frames[1].Fields[2].Values = << 31 >>
====
